---- MODULE Spec2Model ----
(***************************************************************************)
(* Rollout collection of torchy_baselines.common.base_class:              *)
(* BaseRLModel (action transform, _setup_learn, _update_info_buffer) and   *)
(* OffPolicyRLModel.collect_rollouts, as a state machine.                  *)
(*                                                                         *)
(* Real-valued quantities (actions, noise) are exact rationals <<n, d>>    *)
(* in lowest terms with d > 0.                                             *)
(***************************************************************************)
EXTENDS Integers, Sequences, FiniteSets, TLC

(* ------------------------------ bounds -------------------------------- *)
\* largest step budget (n_steps) a caller passes
MaxSteps == 2
\* largest episode budget (n_episodes) a caller passes
MaxEpisodes == 2
\* the environment ends every episode after at most this many steps
MaxEpLen == 2
\* collect_rollouts is not called again once num_timesteps exceeds this
MaxTimesteps == 1
\* largest learning_starts a caller passes
MaxLearningStarts == 1
\* entries offered to a rolling window in one session
MaxInserts == 150
\* longest snapshot handed to the return estimator on its own
MaxSnapshot == 3
\* the bounds of an action space lie between -MaxBound and MaxBound
MaxBound == 2
\* steps whose info payload is followed one by one
MaxRecords == 3

(* --------------------------- exact rationals -------------------------- *)
Abs(x) == IF x < 0 THEN -x ELSE x

RECURSIVE GCD(_, _)
GCD(a, b) == IF b = 0 THEN a ELSE GCD(b, a % b)

\* Op(v), with v evaluated once, before Op is applied
Strict(Op(_), v) == CHOOSE r \in {Op(p) : p \in {v}} : TRUE

\* the rational n/d in lowest terms, d # 0
Rat(n, d) ==
    Strict(LAMBDA p :
               Strict(LAMBDA g : <<p[1] \div g, p[2] \div g>>, GCD(Abs(p[1]), Abs(p[2]))),
           IF d < 0 THEN <<-n, -d>> ELSE <<n, d>>)

R(n) == <<n, 1>>
RAdd(x, y) ==
    Strict(LAMBDA p : Rat(p[1][1] * p[2][2] + p[2][1] * p[1][2], p[1][2] * p[2][2]),
           <<x, y>>)
RSub(x, y) ==
    Strict(LAMBDA p : Rat(p[1][1] * p[2][2] - p[2][1] * p[1][2], p[1][2] * p[2][2]),
           <<x, y>>)
RMul(x, y) == Strict(LAMBDA p : Rat(p[1][1] * p[2][1], p[1][2] * p[2][2]), <<x, y>>)
RDiv(x, y) == Strict(LAMBDA p : Rat(p[1][1] * p[2][2], p[1][2] * p[2][1]), <<x, y>>)
RLeq(x, y) == Strict(LAMBDA p : p[1][1] * p[2][2] <= p[2][1] * p[1][2], <<x, y>>)
RLess(x, y) == Strict(LAMBDA p : p[1][1] * p[2][2] < p[2][1] * p[1][2], <<x, y>>)

\* np.clip(x, lo, hi)
Clip(x, lo, hi) ==
    Strict(LAMBDA p : IF RLess(p[1], p[2]) THEN p[2]
                      ELSE IF RLess(p[3], p[1]) THEN p[3] ELSE p[1],
           <<x, lo, hi>>)

(* ------------------------------ values -------------------------------- *)
\* a Python name that holds None (or is not bound yet) / holds a value
None == <<>>
Some(x) == <<x>>

\* the observation the environment shows n steps into an episode (original
\* scale); a vectorized environment resets itself when an episode ends
EnvObs(n) == IF n = 0 THEN 2 ELSE 4
\* the reward of the step taken n steps into an episode (original scale)
EnvReward(n) == IF n = 0 THEN 2 ELSE 4

\* VecNormalize: the normalized view of an original observation / reward
NormalizeObs(o) == o \div 2
NormalizeReward(r) == r \div 2

\* Box action spaces of the model under training
ActionSpaces == {[low |-> R(0), high |-> R(4)]}

\* what self.predict may return: in bounds, and out of bounds only with SDE
PolicyOutputs(sde) == {R(1)} \cup (IF sde THEN {R(6)} ELSE {})
\* what self.action_space.sample() may return
SampleOutputs(space) == {RAdd(space.low, R(3))}
\* what action_noise() may return
NoiseValues == {Rat(-1, 2), R(1)}

\* the info payload of one step: nothing, or an episode summary and a
\* success flag (on any step, terminal or not)
InfoSet == {[episode |-> None, is_success |-> None],
            [episode |-> Some("episode"), is_success |-> Some(TRUE)]}

\* what a callback invocation returns
CallbackReturns == {"None", "True", "False"}

\* the value network, a fixed function of the (visible) observation
VfNet(o) == R(o + 1)

\* self.gamma
Gamma == Rat(1, 2)

VARIABLES
    self,              \* fields set at construction: use_sde, sde_sample_freq,
                       \* use_sde_at_warmup, on_policy_exploration,
                       \* vec_normalize (is _vec_normalize_env set), action_space
    num_timesteps,     \* self.num_timesteps
    start_time,        \* self.start_time is set (a session was set up)
    ep_info_buffer,    \* self.ep_info_buffer
    ep_success_buffer, \* self.ep_success_buffer
    rollout_data,      \* self.rollout_data: None or the snapshot
    wrapper,           \* the environment and its normalization wrapper:
                       \* original obs and reward of the last step, steps
                       \* into the running episode and the sum of its
                       \* rewards (as the model sees them) so far
    args,              \* arguments of the running collect_rollouts call
    loc,               \* locals of the running collect_rollouts call
    pc,                \* position in collect_rollouts
    result,            \* what the last call returned (five-tuple) or None
    trace              \* per-call record of calls made to collaborators
                       \* and of the episodes the environment completed;
                       \* between _setup_learn and the first call, the
                       \* reset_num_timesteps the session was set up with

vars == <<self, num_timesteps, start_time, ep_info_buffer, ep_success_buffer,
          rollout_data, wrapper, args, loc, pc, result, trace>>
(* ------------------------- BaseRLModel helpers ------------------------ *)
\* scale_action: from [low, high] to [-1, 1]
scale_action(action) ==
    LET low == self.action_space.low
        high == self.action_space.high
    IN  RSub(RMul(R(2), RDiv(RSub(action, low), RSub(high, low))), R(1))

\* the half is forgotten
unscale_action_NoHalf(scaled_action) ==
    LET low == self.action_space.low
        high == self.action_space.high
    IN  RAdd(low, RMul(RAdd(scaled_action, R(1)), RSub(high, low)))

\* unscale_action: from [-1, 1] to [low, high]
unscale_action(scaled_action) ==
    LET low == self.action_space.low
        high == self.action_space.high
    IN  RAdd(low, RMul(RMul(Rat(1, 2), RAdd(scaled_action, R(1))), RSub(high, low)))

\* capacity of the rolling windows, deque(maxlen=100)
WindowCap == 100

\* a full window refuses the new entry
DequeAppend_DropNewest(d, x) ==
    IF Len(d) < WindowCap THEN Append(d, x) ELSE d

\* deque.append / deque.extend([x]) on a deque(maxlen=WindowCap)
DequeAppend(d, x) ==
    IF Len(d) < WindowCap THEN Append(d, x) ELSE Append(Tail(d), x)

\* _update_info_buffer for the single environment: the windows after a step
InfoBufferAfter(buf, info) ==
    IF info.episode # None THEN DequeAppend(buf, info.episode[1]) ELSE buf

\* the done flag is not looked at
SuccessBufferAfter_AnyStep(buf, info, done) ==
    IF info.is_success # None THEN DequeAppend(buf, info.is_success[1]) ELSE buf

SuccessBufferAfter(buf, info, done) ==
    IF info.is_success # None /\ done THEN DequeAppend(buf, info.is_success[1]) ELSE buf

(* --------------------- what the environment shows --------------------- *)
\* the observation / reward env.step and env.reset hand to the model:
\* normalized when a VecNormalize wrapper is active
VisibleObs(o) == IF self.vec_normalize THEN NormalizeObs(o) ELSE o
VisibleReward(r) == IF self.vec_normalize THEN NormalizeReward(r) ELSE r

(* --------------------------- configurations --------------------------- *)
\* the fields of the model a constructor (and a subclass) sets
DefaultSelf(space) ==
    [use_sde |-> FALSE, sde_sample_freq |-> -1, use_sde_at_warmup |-> FALSE,
     on_policy_exploration |-> FALSE, vec_normalize |-> FALSE, action_space |-> space]

\* the arguments of collect_rollouts (defaults of lines 720-727, with a
\* buffer); env is bound by each call
DefaultArgs ==
    [env |-> [is_vec_env |-> TRUE, num_envs |-> 1, episodic |-> TRUE],
     n_episodes |-> 1, n_steps |-> -1,
     action_noise |-> FALSE, learning_starts |-> 0, replay_buffer |-> TRUE]

\* the environments a caller may pass: a VecEnv or not, of one or two envs;
\* episodic: every episode of the environment ends after finitely many steps
EnvSet ==
    {[is_vec_env |-> v, num_envs |-> n, episodic |-> TRUE] : v \in BOOLEAN, n \in {1, 2}}

\* line 806: the done flags env.step may signal after ep_len steps of the
\* episode: an episodic environment ends it within MaxEpLen steps, another
\* one never signals done
EnvDones(env, ep_len) ==
    IF ~env.episodic THEN {FALSE}
    ELSE IF ep_len + 1 >= MaxEpLen THEN {TRUE} ELSE BOOLEAN

\* a budget: disabled (-1) or positive
Budgets(max) == {-1} \cup (1 .. max)

\* every pair of budgets
BudgetScenarios ==
    {[self |-> DefaultSelf(sp),
      args |-> [DefaultArgs EXCEPT !.n_episodes = ne, !.n_steps = ns]] :
        sp \in ActionSpaces,
        ne \in Budgets(MaxEpisodes), ns \in Budgets(MaxSteps)}

\* every way of selecting the action
ExplorationScenarios ==
    {[self |-> [DefaultSelf(sp) EXCEPT !.use_sde = sde, !.sde_sample_freq = f,
                                       !.use_sde_at_warmup = w,
                                       !.on_policy_exploration = sde],
      args |-> [DefaultArgs EXCEPT !.n_episodes = -1, !.n_steps = MaxSteps,
                                   !.action_noise = an, !.learning_starts = ls]] :
        sp \in ActionSpaces, sde \in BOOLEAN, f \in {-1, 2}, w \in BOOLEAN,
        an \in BOOLEAN, ls \in {0, MaxLearningStarts}}

\* every way of storing the step
StorageScenarios ==
    {[self |-> [DefaultSelf(sp) EXCEPT !.use_sde = sde, !.on_policy_exploration = op,
                                       !.vec_normalize = vn],
      args |-> [DefaultArgs EXCEPT !.replay_buffer = rb, !.action_noise = an]] :
        sp \in ActionSpaces, sde \in BOOLEAN, op \in BOOLEAN, vn \in BOOLEAN,
        rb \in BOOLEAN, an \in BOOLEAN}

\* a model and the arguments its training session passes on every call
Scenarios == BudgetScenarios \cup ExplorationScenarios \cup StorageScenarios

\* locals of collect_rollouts before the call binds them
NoLocals ==
    [total_steps |-> 0, total_episodes |-> 0, episode_rewards |-> <<>>,
     continue_training |-> TRUE, done |-> FALSE,
     episode_reward |-> 0, episode_timesteps |-> 0,
     obs |-> None, obs_ |-> None, new_obs |-> None, new_obs_ |-> None,
     reward |-> None, reward_ |-> None,
     scaled_action |-> None, clipped_action |-> None, mean_reward |-> None]

\* nothing called yet in this call
NoTrace ==
    [timesteps_at_call |-> 0, prologue |-> <<>>,
     callbacks |-> 0, last_callback |-> None,
     reset_noise |-> 0, sampled |-> 0, predicted |-> 0,
     source |-> None, raw_action |-> None, noise |-> None,
     env_steps |-> 0, env_action |-> None, done_steps |-> 0, obs_before |-> None,
     adds |-> 0, added |-> None,
     noise_resets |-> 0, rollout_end |-> 0, error |-> None,
     episode_returns |-> <<>>, setup |-> None, resampled |-> FALSE]

Init ==
    /\ \E sc \in Scenarios : self = sc.self /\ args = sc.args
    /\ num_timesteps = 0
    /\ start_time = FALSE
    /\ ep_info_buffer = <<>>
    /\ ep_success_buffer = <<>>
    /\ rollout_data = None
    /\ wrapper = [obs |-> EnvObs(0), reward |-> 0, ep_len |-> 0, ep_return |-> 0]
    /\ loc = NoLocals
    /\ pc = "idle"
    /\ result = None
    /\ trace = NoTrace

\* no collect_rollouts call is running
Idle == pc \in {"idle", "returned", "raised"}

(* ---------------------------- _setup_learn ---------------------------- *)
\* the counter is reset whatever the flag says
ResetTimesteps_Always(reset_num_timesteps, timesteps) == 0

\* lines 527-528
ResetTimesteps(reset_num_timesteps, timesteps) ==
    IF reset_num_timesteps THEN 0 ELSE timesteps

\* lines 517-538; env.reset() starts a new episode
SetupLearn(reset_num_timesteps) ==
    /\ Idle
    /\ pc' = "idle"
    /\ start_time' = TRUE
    /\ ep_info_buffer' = <<>>
    /\ ep_success_buffer' = <<>>
    /\ num_timesteps' = ResetTimesteps(reset_num_timesteps, num_timesteps)
    /\ wrapper' = [obs |-> EnvObs(0), reward |-> 0, ep_len |-> 0, ep_return |-> 0]
    /\ loc' = NoLocals
    /\ result' = None
    /\ trace' = [NoTrace EXCEPT !.setup = Some(reset_num_timesteps)]
    /\ UNCHANGED <<self, rollout_data, args>>
(* -------------------------- collect_rollouts -------------------------- *)
\* the second assertion left out
PreconditionOK_NoArity(env) == env.is_vec_env

\* lines 750-751: the two assertions on the environment
PreconditionOK(env) == env.is_vec_env /\ env.num_envs = 1

\* the loop stops as soon as either budget is met
OuterCond_Either(total_steps, total_episodes, n_steps, n_episodes) ==
    total_steps < n_steps /\ total_episodes < n_episodes

\* the episode budget is overrun by one
OuterCond_OneMore(total_steps, total_episodes, n_steps, n_episodes) ==
    total_steps < n_steps \/ total_episodes <= n_episodes

\* line 767: the outer loop runs while a budget is unmet
OuterCond(total_steps, total_episodes, n_steps, n_episodes) ==
    total_steps < n_steps \/ total_episodes < n_episodes

\* the inner loop is left one step late
BreakInner_Late(n_steps, total_steps) == 0 < n_steps /\ n_steps < total_steps

\* the step budget never leaves the episode loop
BreakInner_Never(n_steps, total_steps) == FALSE

\* line 844: leave the inner loop once a positive step budget is reached
BreakInner(n_steps, total_steps) == 0 < n_steps /\ n_steps <= total_steps

\* the warm-up phase ignores the SDE flags
IsWarmup_NoSde(timesteps, learning_starts) == timesteps < learning_starts

\* line 783: warm-up phase, the action is sampled from the action space
IsWarmup(timesteps, learning_starts) ==
    timesteps < learning_starts /\ ~(self.use_sde /\ self.use_sde_at_warmup)

\* SDE is not asked for
ResampleNoise_NoSde(n_steps) ==
    self.sde_sample_freq > 0 /\ n_steps % self.sde_sample_freq = 0

\* line 778: sample a new noise matrix before this step
ResampleNoise(n_steps) ==
    self.use_sde /\ self.sde_sample_freq > 0 /\ n_steps % self.sde_sample_freq = 0

\* the sum with the external noise is not clipped
ClippedAction_NoReclip(scaled_action, noise) ==
    LET clipped == IF self.use_sde THEN Clip(scaled_action, R(-1), R(1))
                   ELSE scaled_action
    IN  IF noise # None THEN RAdd(clipped, noise[1]) ELSE clipped

\* lines 792-803: clip with SDE, add the external noise (None: no
\* action_noise was passed) and clip again
ClippedAction(scaled_action, noise) ==
    LET clipped == IF self.use_sde THEN Clip(scaled_action, R(-1), R(1))
                   ELSE scaled_action
    IN  IF noise # None THEN Clip(RAdd(clipped, noise[1]), R(-1), R(1)) ELSE clipped

\* the aborted step is counted
StopResult_Counted(l) ==
    [mean_reward |-> R(0), total_steps |-> l.total_steps + 1,
     total_episodes |-> l.total_episodes, obs |-> None, continue_training |-> FALSE]

\* line 776: what a call returns when the callback stops it
StopResult(l) ==
    [mean_reward |-> R(0), total_steps |-> l.total_steps,
     total_episodes |-> l.total_episodes, obs |-> None, continue_training |-> FALSE]

\* the two counters change places
EndResult_Swapped(l) ==
    [mean_reward |-> l.mean_reward[1], total_steps |-> l.total_episodes,
     total_episodes |-> l.total_steps, obs |-> l.obs,
     continue_training |-> l.continue_training]

\* line 899: what a call returns at the end of the rollout
EndResult(l) ==
    [mean_reward |-> l.mean_reward[1], total_steps |-> l.total_steps,
     total_episodes |-> l.total_episodes, obs |-> l.obs,
     continue_training |-> l.continue_training]

\* a snapshot with no step in it
EmptySnapshot ==
    [observations |-> <<>>, actions |-> <<>>, rewards |-> <<>>, dones |-> <<>>,
     values |-> <<>>, returns |-> <<>>, advantage |-> <<>>]

\* the snapshot of the call before is kept
FreshSnapshot_Kept(old) ==
    IF self.use_sde /\ self.on_policy_exploration
    THEN (IF old # None THEN old ELSE Some(EmptySnapshot))
    ELSE old

\* lines 757-762: the old snapshot is dropped; a new, empty one is made
\* only with SDE and on-policy exploration
FreshSnapshot(old) ==
    IF self.use_sde /\ self.on_policy_exploration THEN Some(EmptySnapshot) ELSE None

\* the training loop calls collect_rollouts again only after a call that
\* returned continue_training = True; an exception or a stop ends the session
CanCall == pc = "idle" \/ (pc = "returned" /\ result[1].continue_training)

\* lines 747-765: the call binds its locals, checks the environment, drops
\* the old snapshot, resets the SDE noise and starts the rollout
Call(env) ==
    /\ CanCall
    /\ start_time
    /\ num_timesteps <= MaxTimesteps
    /\ args' = [args EXCEPT !.env = env]
    /\ result' = None
    /\ IF ~PreconditionOK(env)
       THEN /\ pc' = "raised"
            /\ loc' = NoLocals
            /\ trace' = [NoTrace EXCEPT !.timesteps_at_call = num_timesteps,
                                        !.error = Some("AssertionError")]
            /\ UNCHANGED rollout_data
       ELSE /\ pc' = "outer"
            /\ loc' = [NoLocals EXCEPT
                         !.obs = Some(VisibleObs(wrapper.obs)),
                         !.obs_ = IF self.vec_normalize THEN Some(wrapper.obs) ELSE None]
            /\ rollout_data' = FreshSnapshot(rollout_data)
            /\ trace' = [NoTrace EXCEPT
                           !.timesteps_at_call = num_timesteps,
                           !.reset_noise = IF self.use_sde THEN 1 ELSE 0,
                           !.prologue = (IF self.use_sde THEN <<"reset_noise">> ELSE <<>>)
                                        \o <<"on_rollout_start">>]
    /\ UNCHANGED <<self, num_timesteps, start_time, ep_info_buffer,
                   ep_success_buffer, wrapper>>

\* lines 767-769: test the budgets, start an episode segment
OuterLoop ==
    /\ pc = "outer"
    /\ IF OuterCond(loc.total_steps, loc.total_episodes, args.n_steps, args.n_episodes)
       THEN /\ pc' = "callback"
            /\ loc' = [loc EXCEPT !.done = FALSE, !.episode_reward = 0,
                                  !.episode_timesteps = 0]
       ELSE /\ pc' = "post"
            /\ loc' = loc
    /\ UNCHANGED <<self, num_timesteps, start_time, ep_info_buffer, ep_success_buffer,
                   rollout_data, wrapper, args, result, trace>>

\* anything falsy stops the rollout
IsFalse_Falsy(ret) == ret \in {"False", "None"}

\* line 774: callback() is False
IsFalse(ret) == ret = "False"

\* lines 773-776: the per-step callback; only False stops the rollout
Callback(ret) ==
    /\ pc = "callback"
    /\ trace' = [trace EXCEPT !.callbacks = @ + 1, !.last_callback = Some(ret)]
    /\ IF IsFalse(ret)
       THEN /\ loc' = [loc EXCEPT !.continue_training = FALSE]
            /\ result' = Some(StopResult(loc))
            /\ pc' = "returned"
       ELSE /\ pc' = "act"
            /\ UNCHANGED <<loc, result>>
    /\ UNCHANGED <<self, num_timesteps, start_time, ep_info_buffer, ep_success_buffer,
                   rollout_data, wrapper, args>>

\* lines 778-811: resample the SDE noise, select the action, scale, clip and
\* perturb it, step the environment, add up the reward, update the windows
Act(unscaled_action, noise, done, info) ==
    /\ pc = "act"
    /\ LET warmup == IsWarmup(num_timesteps, args.learning_starts)
           scaled == scale_action(unscaled_action)
           clipped == ClippedAction(scaled, noise)
           reward == EnvReward(wrapper.ep_len)
           ep_len == IF done THEN 0 ELSE wrapper.ep_len + 1
       IN  /\ unscaled_action \in (IF warmup THEN SampleOutputs(self.action_space)
                                   ELSE PolicyOutputs(self.use_sde))
           /\ noise \in (IF args.action_noise THEN {Some(n) : n \in NoiseValues}
                         ELSE {None})
           /\ done \in EnvDones(args.env, wrapper.ep_len)
           /\ wrapper' = [obs |-> EnvObs(ep_len), reward |-> reward, ep_len |-> ep_len,
                          ep_return |-> IF done THEN 0
                                        ELSE wrapper.ep_return + VisibleReward(reward)]
           /\ loc' = [loc EXCEPT
                        !.scaled_action = Some(scaled),
                        !.clipped_action = Some(clipped),
                        !.new_obs = Some(VisibleObs(EnvObs(ep_len))),
                        !.reward = Some(VisibleReward(reward)),
                        !.done = done,
                        !.episode_reward = @ + VisibleReward(reward)]
           /\ trace' = [trace EXCEPT
                          !.last_callback = None,
                          !.reset_noise = IF ResampleNoise(args.n_steps) THEN @ + 1 ELSE @,
                          !.resampled = ResampleNoise(args.n_steps),
                          !.source = Some(IF warmup THEN "sample" ELSE "predict"),
                          !.sampled = IF warmup THEN @ + 1 ELSE @,
                          !.predicted = IF warmup THEN @ ELSE @ + 1,
                          !.raw_action = Some(unscaled_action),
                          !.noise = noise,
                          !.env_steps = @ + 1,
                          !.env_action = Some(unscale_action(clipped)),
                          !.done_steps = IF done THEN @ + 1 ELSE @,
                          !.obs_before = Some(wrapper.obs),
                          !.episode_returns =
                              IF done
                              THEN Append(@, wrapper.ep_return + VisibleReward(reward))
                              ELSE @]
           /\ ep_info_buffer' = InfoBufferAfter(ep_info_buffer, info)
           /\ ep_success_buffer' = SuccessBufferAfter(ep_success_buffer, info, done)
    /\ pc' = "store"
    /\ UNCHANGED <<self, num_timesteps, start_time, rollout_data, args, result>>
\* the wrapper is ignored: the stepped values are stored
StoreLocals_Stepped(l) ==
    [l EXCEPT !.obs_ = l.obs, !.new_obs_ = l.new_obs, !.reward_ = l.reward]

\* lines 816-821: the unnormalized views of the step, bound only on the
\* path that stores into a buffer
StoreLocals(l) ==
    IF self.vec_normalize
    THEN [l EXCEPT !.new_obs_ = Some(wrapper.obs), !.reward_ = Some(wrapper.reward)]
    ELSE [l EXCEPT !.obs_ = l.obs, !.new_obs_ = l.new_obs, !.reward_ = l.reward]

\* the action from before clipping and noise is stored
Transition_Scaled(l) ==
    [obs |-> l.obs_[1], next_obs |-> l.new_obs_[1], action |-> l.scaled_action[1],
     reward |-> l.reward_[1], done |-> l.done]

\* line 823: the transition handed to replay_buffer.add
Transition(l) ==
    [obs |-> l.obs_[1], next_obs |-> l.new_obs_[1], action |-> l.clipped_action[1],
     reward |-> l.reward_[1], done |-> l.done]

\* lines 827-832: one more step in the snapshot
SnapshotAppend(rd, l) ==
    [rd EXCEPT !.observations = Append(@, l.obs[1]),
               !.actions = Append(@, l.scaled_action[1]),
               !.rewards = Append(@, l.reward[1]),
               !.dones = Append(@, l.done),
               !.values = Append(@, VfNet(l.obs[1]))]

\* lines 813-832: store the step in the replay buffer and in the snapshot
Store ==
    /\ pc = "store"
    /\ IF args.replay_buffer
       THEN /\ loc' = StoreLocals(loc)
            /\ trace' = [trace EXCEPT !.adds = @ + 1,
                                      !.added = Some(Transition(StoreLocals(loc)))]
       ELSE UNCHANGED <<loc, trace>>
    /\ rollout_data' = IF rollout_data # None
                       THEN Some(SnapshotAppend(rollout_data[1], loc))
                       ELSE rollout_data
    /\ pc' = "advance"
    /\ UNCHANGED <<self, num_timesteps, start_time, ep_info_buffer, ep_success_buffer,
                   wrapper, args, result>>

\* lines 834-845: move to the new observation, advance the counters, leave
\* the inner loop when the episode is over or the step budget is reached.
\* Line 839 reads new_obs_, which is bound only by line 817.
Advance ==
    /\ pc = "advance"
    /\ IF self.vec_normalize /\ loc.new_obs_ = None
       THEN /\ loc' = [loc EXCEPT !.obs = loc.new_obs]
            /\ trace' = [trace EXCEPT !.error = Some("UnboundLocalError")]
            /\ pc' = "raised"
            /\ UNCHANGED num_timesteps
       ELSE /\ loc' = [loc EXCEPT
                         !.obs = loc.new_obs,
                         !.obs_ = IF self.vec_normalize THEN loc.new_obs_ ELSE @,
                         !.episode_timesteps = @ + 1,
                         !.total_steps = @ + 1]
            /\ num_timesteps' = num_timesteps + 1
            /\ pc' = IF BreakInner(args.n_steps, loc.total_steps + 1) \/ loc.done
                     THEN "episode_end" ELSE "callback"
            /\ UNCHANGED trace
    /\ UNCHANGED <<self, start_time, ep_info_buffer, ep_success_buffer, rollout_data,
                   wrapper, args, result>>

\* lines 847-853: an episode ended: count it, keep its reward, reset the
\* external action noise (lines 855-872 only write to the logger)
EpisodeEnd ==
    /\ pc = "episode_end"
    /\ IF loc.done
       THEN /\ loc' = [loc EXCEPT !.total_episodes = @ + 1,
                                  !.episode_rewards = Append(@, loc.episode_reward)]
            /\ trace' = [trace EXCEPT
                           !.noise_resets = IF args.action_noise THEN @ + 1 ELSE @]
       ELSE UNCHANGED <<loc, trace>>
    /\ pc' = "outer"
    /\ UNCHANGED <<self, num_timesteps, start_time, ep_info_buffer, ep_success_buffer,
                   rollout_data, wrapper, args, result>>

RECURSIVE Sum(_)
Sum(seq) == IF seq = <<>> THEN 0 ELSE Head(seq) + Sum(Tail(seq))

\* line 874
MeanReward(l) ==
    IF l.total_episodes > 0 THEN Rat(Sum(l.episode_rewards), Len(l.episode_rewards))
    ELSE R(0)

\* the rollout is taken to go on whatever the flag says
NonTerminal_Always(done) == R(1)

\* 1.0 - done
NonTerminal(done) == IF done THEN R(0) ELSE R(1)

\* the next return is not discounted
RECURSIVE LastReturn_NoDiscount(_, _, _, _)
LastReturn_NoDiscount(rd, step, done, obs) ==
    IF step = Len(rd.rewards)
    THEN RAdd(R(rd.rewards[step]), RMul(NonTerminal(done), VfNet(obs)))
    ELSE RAdd(R(rd.rewards[step]),
              RMul(LastReturn_NoDiscount(rd, step + 1, done, obs),
                   NonTerminal(rd.dones[step + 1])))

\* lines 886-894: the return of snapshot index step (from 1), given the done
\* flag and the observation the rollout ended with
RECURSIVE LastReturn(_, _, _, _)
LastReturn(rd, step, done, obs) ==
    IF step = Len(rd.rewards)
    THEN RAdd(R(rd.rewards[step]), RMul(NonTerminal(done), VfNet(obs)))
    ELSE RAdd(R(rd.rewards[step]),
              RMul(RMul(Gamma, LastReturn(rd, step + 1, done, obs)),
                   NonTerminal(rd.dones[step + 1])))

\* the values are not subtracted
Estimate_NoBaseline(rd, done, obs) ==
    LET returns == [i \in 1 .. Len(rd.rewards) |-> LastReturn(rd, i, done, obs)]
    IN  [rd EXCEPT !.returns = returns, !.advantage = returns]

\* lines 877-895: returns and advantage of the snapshot
Estimate(rd, done, obs) ==
    LET returns == [i \in 1 .. Len(rd.rewards) |-> LastReturn(rd, i, done, obs)]
    IN  [rd EXCEPT !.returns = returns,
                   !.advantage = [i \in 1 .. Len(rd.rewards) |->
                                     RSub(returns[i], rd.values[i])]]

\* the estimator is left for later
PostProcess_MeanOnly ==
    /\ pc = "post"
    /\ loc' = [loc EXCEPT !.mean_reward = Some(MeanReward(loc))]
    /\ pc' = "end"
    /\ UNCHANGED <<self, num_timesteps, start_time, ep_info_buffer, ep_success_buffer,
                   rollout_data, wrapper, args, result, trace>>

\* lines 874-895: mean episode reward, then returns and advantage
PostProcess ==
    /\ pc = "post"
    /\ loc' = [loc EXCEPT !.mean_reward = Some(MeanReward(loc))]
    /\ rollout_data' = IF rollout_data # None
                       THEN Some(Estimate(rollout_data[1], loc.done, loc.obs[1]))
                       ELSE rollout_data
    /\ pc' = "end"
    /\ UNCHANGED <<self, num_timesteps, start_time, ep_info_buffer, ep_success_buffer,
                   wrapper, args, result, trace>>

\* lines 897-899: the post-rollout callback, then the five-tuple
RolloutEnd ==
    /\ pc = "end"
    /\ trace' = [trace EXCEPT !.rollout_end = @ + 1]
    /\ result' = Some(EndResult(loc))
    /\ pc' = "returned"
    /\ UNCHANGED <<self, num_timesteps, start_time, ep_info_buffer, ep_success_buffer,
                   rollout_data, wrapper, args, loc>>

Next ==
    \/ \E reset_num_timesteps \in BOOLEAN : SetupLearn(reset_num_timesteps)
    \/ \E env \in EnvSet : Call(env)
    \/ OuterLoop
    \/ \E ret \in CallbackReturns : Callback(ret)
    \/ \E u \in PolicyOutputs(TRUE) \cup SampleOutputs(self.action_space),
          n \in {None} \cup {Some(x) : x \in NoiseValues},
          d \in BOOLEAN, info \in InfoSet : Act(u, n, d, info)
    \/ Store
    \/ Advance
    \/ EpisodeEnd
    \/ PostProcess
    \/ RolloutEnd

Spec == Init /\ [][Next]_vars

(* ------------------------- the rolling windows ------------------------ *)
\* _update_info_buffer and safe_mean on their own, over a session long
\* enough to overflow the windows. An episode summary is one number, its
\* arrival number; so is a success flag. trace counts the entries appended
\* to each window since the session was set up.
TrackerInit ==
    /\ \E sp \in ActionSpaces : self = DefaultSelf(sp)
    /\ args = DefaultArgs
    /\ num_timesteps = 0
    /\ start_time = TRUE
    /\ ep_info_buffer = <<>>
    /\ ep_success_buffer = <<>>
    /\ rollout_data = None
    /\ wrapper = [obs |-> EnvObs(0), reward |-> 0, ep_len |-> 0, ep_return |-> 0]
    /\ loc = NoLocals
    /\ pc = "idle"
    /\ result = None
    /\ trace = [ep_infos |-> 0, successes |-> 0]

\* lines 541-556 for the single environment: the step's info carries an
\* episode summary or not, a success flag or not
UpdateInfoBuffer(episode, is_success, done) ==
    /\ trace.ep_infos < MaxInserts
    /\ trace.successes < MaxInserts
    /\ LET info == [episode |-> IF episode THEN Some(trace.ep_infos + 1) ELSE None,
                    is_success |-> IF is_success THEN Some(trace.successes + 1)
                                   ELSE None]
       IN  /\ ep_info_buffer' = InfoBufferAfter(ep_info_buffer, info)
           /\ ep_success_buffer' = SuccessBufferAfter(ep_success_buffer, info, done)
    /\ trace' = [ep_infos |-> IF episode THEN trace.ep_infos + 1 ELSE trace.ep_infos,
                 successes |-> IF is_success /\ done THEN trace.successes + 1
                               ELSE trace.successes]
    /\ result' = None
    /\ UNCHANGED <<self, num_timesteps, start_time, rollout_data, wrapper, args,
                   loc, pc>>

\* the means are zero on an empty window
safe_mean_Zero(arr) ==
    IF Len(arr) = 0 THEN R(0) ELSE Rat(Sum(arr), Len(arr))

\* np.nan
NaN == <<0, 0>>

\* lines 199-208
safe_mean(arr) ==
    IF Len(arr) = 0 THEN NaN ELSE Rat(Sum(arr), Len(arr))

\* safe_mean applied to each window as it stands (as lines 862 and 871 do,
\* there on non-empty windows only)
SafeMean ==
    /\ result = None
    /\ result' = Some([ep_len_mean |-> safe_mean(ep_info_buffer),
                       success_rate |-> safe_mean(ep_success_buffer)])
    /\ UNCHANGED <<self, num_timesteps, start_time, ep_info_buffer, ep_success_buffer,
                   rollout_data, wrapper, args, loc, pc, trace>>

TrackerNext ==
    \/ \E episode \in BOOLEAN, is_success \in BOOLEAN, done \in BOOLEAN :
          UpdateInfoBuffer(episode, is_success, done)
    \/ SafeMean

TrackerSpec == TrackerInit /\ [][TrackerNext]_vars

(* ----------------------- the record of one step ---------------------- *)
\* every info payload of a step: with or without an episode summary, with
\* or without a success flag of either value
RecordInfos ==
    {[episode |-> e, is_success |-> s] :
        e \in {None, Some("episode")}, s \in {None, Some(TRUE), Some(FALSE)}}

\* a session that has been set up; trace keeps the payload and done flag of
\* the last step and the windows from before it
RecordInit ==
    /\ \E sp \in ActionSpaces : self = DefaultSelf(sp)
    /\ args = DefaultArgs
    /\ num_timesteps = 0
    /\ start_time = TRUE
    /\ ep_info_buffer = <<>>
    /\ ep_success_buffer = <<>>
    /\ rollout_data = None
    /\ wrapper = [obs |-> EnvObs(0), reward |-> 0, ep_len |-> 0, ep_return |-> 0]
    /\ loc = NoLocals
    /\ pc = "idle"
    /\ result = None
    /\ trace = [steps |-> 0, info |-> None, done |-> FALSE,
                ep_info_before |-> <<>>, ep_success_before |-> <<>>]

\* line 811 with lines 541-556: the windows take in the info of one step
RecordStep(info, done) ==
    /\ trace.steps < MaxRecords
    /\ ep_info_buffer' = InfoBufferAfter(ep_info_buffer, info)
    /\ ep_success_buffer' = SuccessBufferAfter(ep_success_buffer, info, done)
    /\ trace' = [steps |-> trace.steps + 1, info |-> Some(info), done |-> done,
                 ep_info_before |-> ep_info_buffer,
                 ep_success_before |-> ep_success_buffer]
    /\ UNCHANGED <<self, num_timesteps, start_time, rollout_data, wrapper, args,
                   loc, pc, result>>

RecordNext == \E info \in RecordInfos, done \in BOOLEAN : RecordStep(info, done)

RecordSpec == RecordInit /\ [][RecordNext]_vars

(* ------------------------ the return estimator ------------------------ *)
\* rewards a rollout may have collected
SnapshotRewards == {1, 2, 5}
\* observations a rollout may have seen
SnapshotObs == {EnvObs(0), EnvObs(1)}

\* the post-processing of lines 874-899 on its own: a rollout of an
\* on-policy SDE model has left the inner loops with a snapshot of T steps,
\* the done flag of its last step and the observation that step returned
EstimatorInit ==
    /\ \E sp \in ActionSpaces :
          self = [DefaultSelf(sp) EXCEPT !.use_sde = TRUE,
                                         !.on_policy_exploration = TRUE]
    /\ num_timesteps = 0
    /\ start_time = TRUE
    /\ ep_info_buffer = <<>>
    /\ ep_success_buffer = <<>>
    /\ wrapper = [obs |-> EnvObs(0), reward |-> 0, ep_len |-> 0, ep_return |-> 0]
    /\ \E T \in 1 .. MaxSnapshot :
          \E rewards \in [1 .. T -> SnapshotRewards], dones \in [1 .. T -> BOOLEAN],
             observations \in [1 .. T -> SnapshotObs], obs \in SnapshotObs :
             /\ rollout_data =
                  Some([observations |-> observations,
                        actions |-> [i \in 1 .. T |-> R(0)],
                        rewards |-> rewards,
                        dones |-> dones,
                        values |-> [i \in 1 .. T |-> VfNet(observations[i])],
                        returns |-> <<>>, advantage |-> <<>>])
             /\ args = [DefaultArgs EXCEPT !.n_episodes = -1, !.n_steps = T]
             /\ loc = [NoLocals EXCEPT !.total_steps = T, !.done = dones[T],
                                       !.obs = Some(obs), !.new_obs = Some(obs)]
    /\ pc = "post"
    /\ result = None
    /\ trace = NoTrace

EstimatorNext == PostProcess \/ RolloutEnd

EstimatorSpec == EstimatorInit /\ [][EstimatorNext]_vars

(* ------------------------ the action transform ------------------------ *)
\* Box spaces low < high with whole bounds
TransformSpaces ==
    {[low |-> R(l), high |-> R(h)] :
        <<l, h>> \in {b \in (-MaxBound .. MaxBound) \X (-MaxBound .. MaxBound) :
                        b[1] < b[2]}}

\* the actions of a space, in steps of one half
SpaceActions(space) == {Rat(n, 2) : n \in 2 * space.low[1] .. 2 * space.high[1]}

\* scale_action and unscale_action on their own: an action of the space
\* is scaled (as on line 790) and the result unscaled (as on line 806)
TransformInit ==
    /\ \E sp \in TransformSpaces :
          /\ self = DefaultSelf(sp)
          /\ \E a \in SpaceActions(sp) : trace = [NoTrace EXCEPT !.raw_action = Some(a)]
    /\ args = DefaultArgs
    /\ num_timesteps = 0
    /\ start_time = TRUE
    /\ ep_info_buffer = <<>>
    /\ ep_success_buffer = <<>>
    /\ rollout_data = None
    /\ wrapper = [obs |-> EnvObs(0), reward |-> 0, ep_len |-> 0, ep_return |-> 0]
    /\ loc = NoLocals
    /\ pc = "scale"
    /\ result = None

\* lines 151-159
ScaleAction ==
    /\ pc = "scale"
    /\ loc' = [loc EXCEPT !.scaled_action = Some(scale_action(trace.raw_action[1]))]
    /\ pc' = "unscale"
    /\ UNCHANGED <<self, num_timesteps, start_time, ep_info_buffer, ep_success_buffer,
                   rollout_data, wrapper, args, result, trace>>

\* lines 161-169
UnscaleAction ==
    /\ pc = "unscale"
    /\ trace' = [trace EXCEPT !.env_action = Some(unscale_action(loc.scaled_action[1]))]
    /\ pc' = "transformed"
    /\ UNCHANGED <<self, num_timesteps, start_time, ep_info_buffer, ep_success_buffer,
                   rollout_data, wrapper, args, loc, result>>

TransformNext == ScaleAction \/ UnscaleAction

TransformSpec == TransformInit /\ [][TransformNext]_vars

(* ------------------- termination of collect_rollouts ------------------ *)
\* the environments of a training session: one whose episodes all end and
\* one that never signals done
LiveEnvs ==
    {[is_vec_env |-> TRUE, num_envs |-> 1, episodic |-> e] : e \in BOOLEAN}

\* the most steps one call takes on an episodic environment; the steps of
\* a call that never returns are followed up to here
LiveStepCap == MaxSteps + MaxEpisodes * MaxEpLen

\* lines 517-538: a session after _setup_learn, for every pair of budgets
\* and either environment
LiveInit ==
    /\ \E sc \in BudgetScenarios, env \in LiveEnvs :
          self = sc.self /\ args = [sc.args EXCEPT !.env = env]
    /\ num_timesteps = 0
    /\ start_time = TRUE
    /\ ep_info_buffer = <<>>
    /\ ep_success_buffer = <<>>
    /\ rollout_data = None
    /\ wrapper = [obs |-> EnvObs(0), reward |-> 0, ep_len |-> 0, ep_return |-> 0]
    /\ loc = NoLocals
    /\ pc = "idle"
    /\ result = None
    /\ trace = [NoTrace EXCEPT !.setup = Some(TRUE)]

\* the training loop passes the session's environment on every call
LiveCall == Call(args.env)

\* lines 767-899: the next statement of the running call
LiveStep ==
    \/ OuterLoop
    \/ \E ret \in CallbackReturns : Callback(ret)
    \/ /\ loc.total_steps < LiveStepCap
       /\ \E u \in PolicyOutputs(TRUE) \cup SampleOutputs(self.action_space),
             d \in BOOLEAN, info \in InfoSet : Act(u, None, d, info)
    \/ Store
    \/ Advance
    \/ EpisodeEnd
    \/ PostProcess
    \/ RolloutEnd

LiveNext == LiveCall \/ LiveStep

\* a running call executes its next statement: the interpreter does not
\* stop inside the function, and callback and env.step return when called
LiveSpec == LiveInit /\ [][LiveNext]_vars /\ WF_vars(LiveStep)

(* ------------------------------- claims ------------------------------- *)
\* the running or last call was stopped by its callback
Stopped == pc = "returned" /\ trace.last_callback = Some("False")
\* the last call ran to the end of the rollout and returned
Finished == pc = "returned" /\ trace.last_callback # Some("False")

\* C1: when the k-th callback invocation of a call returns False, the call
\* returns (0.0, k-1, episodes completed so far, None, False), and exactly
\* k-1 environment steps, buffer adds and counter increments have happened.
C1_CallbackStop ==
    Stopped =>
        /\ result = Some([mean_reward |-> R(0), total_steps |-> trace.callbacks - 1,
                          total_episodes |-> trace.done_steps, obs |-> None,
                          continue_training |-> FALSE])
        /\ trace.env_steps = trace.callbacks - 1
        /\ trace.adds = (IF args.replay_buffer THEN trace.callbacks - 1 ELSE 0)
        /\ num_timesteps = trace.timesteps_at_call + trace.callbacks - 1
        /\ trace.rollout_end = 0

\* a stop on the third invocation, after two steps and one completed episode
C1_Witness ==
    Stopped /\ trace.callbacks = 3 /\ result[1].total_steps = 2
            /\ result[1].total_episodes = 1

\* C2: with n_steps = N > 0 and n_episodes = -1, a call that is not stopped
\* never takes more than N steps and returns total_steps = N exactly.
C2_StepBudgetExact ==
    (args.n_steps > 0 /\ args.n_episodes = -1) =>
        /\ trace.env_steps <= args.n_steps
        /\ Finished => /\ result[1].total_steps = args.n_steps
                       /\ trace.env_steps = args.n_steps

\* the budget was reached mid-episode, after an episode had completed
C2_Witness ==
    /\ Finished /\ args.n_steps = 2 /\ args.n_episodes = -1
    /\ result[1].total_episodes = 1 /\ ~loc.done

\* C3: with n_episodes = K >= 1 and n_steps = -1, a call that is not stopped
\* returns total_episodes = K exactly and its last environment step
\* returned done = true.
C3_EpisodeBudgetExact ==
    (Finished /\ args.n_episodes >= 1 /\ args.n_steps = -1) =>
        /\ result[1].total_episodes = args.n_episodes
        /\ trace.done_steps = args.n_episodes
        /\ loc.done

\* two episodes, one of them longer than one step
C3_Witness ==
    /\ Finished /\ args.n_episodes = 2 /\ args.n_steps = -1
    /\ result[1].total_steps >= 3

\* C4: with both budgets positive, a call that is not stopped leaves the
\* outer loop only when total_steps >= n_steps and total_episodes >=
\* n_episodes both hold.
C4_BothBudgets ==
    (args.n_steps > 0 /\ args.n_episodes > 0
     /\ (pc \in {"post", "end"} \/ Finished)) =>
        /\ loc.total_steps >= args.n_steps
        /\ loc.total_episodes >= args.n_episodes

\* the step budget was met first and the rollout went on past it
C4_Witness ==
    /\ Finished /\ args.n_steps > 0 /\ args.n_episodes > 0
    /\ result[1].total_steps > args.n_steps
    /\ result[1].total_episodes = args.n_episodes

\* C5: a step samples its action from the action space exactly when
\* num_timesteps < learning_starts and not (use_sde and use_sde_at_warmup),
\* and queries the policy otherwise; every step does exactly one of the
\* two, and with SDE disabled no step before learning_starts queries the policy.
C5_WarmupGating ==
    /\ pc \in {"store", "advance"} =>
          (trace.source = Some("sample")) <=>
              (num_timesteps < args.learning_starts
               /\ ~(self.use_sde /\ self.use_sde_at_warmup))
    /\ trace.sampled + trace.predicted = trace.env_steps
    /\ pc \in {"store", "advance"} =>
          IF trace.source = Some("sample")
          THEN trace.raw_action[1] \in SampleOutputs(self.action_space)
          ELSE trace.raw_action[1] \in PolicyOutputs(self.use_sde)
    /\ (~self.use_sde /\ num_timesteps < args.learning_starts /\ pc # "raised")
          => trace.predicted = 0

\* a call whose first step is a warm-up sample and whose next step queries
\* the policy; SDE is on but not used during warm-up
C5_Witness ==
    /\ pc = "store" /\ trace.sampled = 1 /\ trace.predicted = 1
    /\ self.use_sde /\ ~self.use_sde_at_warmup

\* the normalized action of the running step after SDE clipping, external
\* noise and re-clipping
AppliedAction ==
    LET scaled == scale_action(trace.raw_action[1])
        clipped == IF self.use_sde THEN Clip(scaled, R(-1), R(1)) ELSE scaled
    IN  IF args.action_noise
        THEN Clip(RAdd(clipped, trace.noise[1]), R(-1), R(1))
        ELSE clipped

\* C6: the action stored in the replay buffer is the normalized action after
\* clipping and noise, the one whose unscaled image went to env.step.
C6_BufferAction ==
    (pc = "advance" /\ args.replay_buffer) =>
        /\ trace.added[1].action = AppliedAction
        /\ trace.env_action = Some(unscale_action(trace.added[1].action))

\* a stored action that differs from the scaled policy output
C6_Witness ==
    /\ pc = "advance" /\ args.replay_buffer /\ trace.source = Some("predict")
    /\ trace.added[1].action # scale_action(trace.raw_action[1])
\* C7: the action appended to the snapshot is the action applied to the
\* environment on that step (after clipping and noise), the one the replay
\* buffer stores.
C7_SnapshotAction ==
    (pc = "advance" /\ rollout_data # None) =>
        rollout_data[1].actions[Len(rollout_data[1].actions)] = AppliedAction

\* C8: every transition added to the buffer carries the environment's
\* original observation from before the step, its original observation
\* from after the step and its original reward: the wrapper's unnormalized
\* views when a wrapper is active, the stepped values otherwise.
C8_BufferUnnormalized ==
    (pc = "advance" /\ args.replay_buffer) =>
        /\ trace.added[1].obs = trace.obs_before[1]
        /\ trace.added[1].next_obs = wrapper.obs
        /\ trace.added[1].reward = wrapper.reward
        /\ trace.added[1].done = loc.done
        /\ ~self.vec_normalize =>
              /\ trace.added[1].obs = loc.obs[1]
              /\ trace.added[1].next_obs = loc.new_obs[1]
              /\ trace.added[1].reward = loc.reward[1]

\* with a wrapper, on a later step of a session: the stored observations
\* and reward differ from the normalized ones the step returned
C8_Witness ==
    /\ pc = "advance" /\ args.replay_buffer /\ self.vec_normalize
    /\ num_timesteps >= 1
    /\ trace.added[1].obs # loc.obs[1]
    /\ trace.added[1].next_obs # loc.new_obs[1]
    /\ trace.added[1].reward # loc.reward[1]

\* C9: without a replay buffer a call that passes its preconditions never
\* raises, with or without a normalization wrapper.
C9_NoBufferNeverRaises ==
    (~args.replay_buffer /\ PreconditionOK(args.env)) => pc # "raised"

\* a collect_rollouts call starts in this step
CallStep == pc \in {"idle", "returned"} /\ pc' \in {"outer", "raised"}

\* C10: a call whose environment is not a VecEnv of exactly one environment
\* raises before on_rollout_start, any callback, noise reset, environment
\* step or buffer add, and leaves num_timesteps, the snapshot, the rolling
\* windows and the environment unchanged.
C10_Precondition ==
    [][(CallStep /\ ~(args'.env.is_vec_env /\ args'.env.num_envs = 1)) =>
          /\ pc' = "raised"
          /\ trace'.prologue = <<>> /\ trace'.callbacks = 0
          /\ trace'.reset_noise = 0 /\ trace'.env_steps = 0 /\ trace'.adds = 0
          /\ UNCHANGED <<num_timesteps, rollout_data, ep_info_buffer,
                         ep_success_buffer, wrapper>>]_vars

\* a refused call on a model that holds a snapshot, a counter and window
\* entries from an earlier call
C10_Witness ==
    /\ pc = "raised" /\ trace.error = Some("AssertionError")
    /\ args.env.num_envs = 2
    /\ rollout_data # None /\ num_timesteps > 0 /\ ep_info_buffer # <<>>

\* the n most recent arrival numbers, at most a hundred of them, oldest first
Recent(n) ==
    LET k == IF n < 100 THEN n ELSE 100
    IN  [i \in 1 .. k |-> n - k + i]

\* C11: a rolling window never holds more than 100 entries; after n appends
\* since the session was set up it holds the most recent min(n, 100) of
\* them in insertion order, the oldest evicted first.
C11_RollingWindows ==
    /\ Len(ep_info_buffer) <= 100
    /\ Len(ep_success_buffer) <= 100
    /\ ep_info_buffer = Recent(trace.ep_infos)
    /\ ep_success_buffer = Recent(trace.successes)

\* 150 summaries arrived: the window holds the 51st to the 150th
C11_Witness ==
    /\ trace.ep_infos = 150
    /\ Len(ep_info_buffer) = 100
    /\ ep_info_buffer[1] = 51 /\ ep_info_buffer[100] = 150

\* C12: safe_mean of an empty window is the NaN sentinel; of a non-empty
\* window it is the arithmetic mean of the entries, a number.
C12_SafeMean ==
    result # None =>
        /\ IF ep_info_buffer = <<>> THEN result[1].ep_len_mean = NaN
           ELSE /\ result[1].ep_len_mean # NaN
                /\ RMul(result[1].ep_len_mean, R(Len(ep_info_buffer)))
                     = R(Sum(ep_info_buffer))
        /\ IF ep_success_buffer = <<>> THEN result[1].success_rate = NaN
           ELSE /\ result[1].success_rate # NaN
                /\ RMul(result[1].success_rate, R(Len(ep_success_buffer)))
                     = R(Sum(ep_success_buffer))

\* the mean of an empty window next to the mean of a full one
C12_Witness ==
    /\ result # None
    /\ ep_success_buffer = <<>> /\ result[1].success_rate = NaN
    /\ Len(ep_info_buffer) = 100 /\ result[1].ep_len_mean # NaN

\* a rollout with a non-empty snapshot has computed its returns
Estimated ==
    /\ rollout_data # None
    /\ pc = "end" \/ Finished
    /\ Len(rollout_data[1].rewards) > 0

\* C13: the return of the last snapshot index T is reward[T] + (1 - d) * V,
\* d the done flag of the rollout's final step and V the value of the
\* observation that step returned; when the final step is terminal the
\* return is the reward alone.
C13_ReturnBase ==
    Estimated =>
        LET rd == rollout_data[1]
            T == Len(rd.rewards)
            V == VfNet(VisibleObs(wrapper.obs))
        IN  /\ loc.done = rd.dones[T]
            /\ loc.obs = Some(VisibleObs(wrapper.obs))
            /\ rd.returns[T] = RAdd(R(rd.rewards[T]), IF loc.done THEN R(0) ELSE V)
            /\ loc.done => rd.returns[T] = R(rd.rewards[T])

\* a rollout of one terminal step
C13_Witness ==
    /\ Estimated /\ pc = "returned"
    /\ rollout_data[1].dones = <<TRUE>>
    /\ rollout_data[1].returns = <<R(rollout_data[1].rewards[1])>>

\* C14: for every snapshot index i before the last, return[i] = reward[i]
\* + gamma * return[i+1] * (1 - done[i+1]), done[i+1] the snapshot's flag
\* of the next step.
C14_ReturnRecursion ==
    Estimated =>
        LET rd == rollout_data[1]
        IN  \A i \in 1 .. Len(rd.rewards) - 1 :
                rd.returns[i] =
                    RAdd(R(rd.rewards[i]),
                         RMul(RMul(Gamma, rd.returns[i + 1]),
                              IF rd.dones[i + 1] THEN R(0) ELSE R(1)))

\* three steps: the second return reaches the first, the third is cut off
C14_Witness ==
    /\ Estimated /\ Len(rollout_data[1].rewards) = 3
    /\ rollout_data[1].dones = <<FALSE, FALSE, TRUE>>
    /\ RLess(R(rollout_data[1].rewards[1]), rollout_data[1].returns[1])
    /\ rollout_data[1].returns[2] = R(rollout_data[1].rewards[2])

\* C15: a step that did not itself end its episode bootstraps from the
\* next step's return, even when that next step is terminal: return[i] =
\* reward[i] + gamma * return[i+1] (rewards 1, 2 and dones False, True with
\* gamma 0.5 give returns 2, 2).
C15_ReturnChain ==
    Estimated =>
        LET rd == rollout_data[1]
        IN  \A i \in 1 .. Len(rd.rewards) - 1 :
                ~rd.dones[i] =>
                    rd.returns[i] =
                        RAdd(R(rd.rewards[i]), RMul(Gamma, rd.returns[i + 1]))

\* C16: advantage[i] = return[i] - value[i] at every snapshot index, the
\* value being the one captured for the observation of step i.
C16_Advantage ==
    Estimated =>
        LET rd == rollout_data[1]
        IN  /\ Len(rd.advantage) = Len(rd.rewards)
            /\ Len(rd.values) = Len(rd.rewards)
            /\ \A i \in 1 .. Len(rd.rewards) :
                   /\ rd.values[i] = VfNet(rd.observations[i])
                   /\ rd.advantage[i] = RSub(rd.returns[i], rd.values[i])

\* a step that did worse than its value and a step that did better
C16_Witness ==
    /\ Estimated /\ Len(rollout_data[1].rewards) = 3
    /\ RLess(rollout_data[1].advantage[1], R(0))
    /\ RLess(R(0), rollout_data[1].advantage[3])

\* C17: for every space low < high and every action a in [low, high],
\* unscale_action(scale_action(a)) = a; scale_action maps [low, high] onto
\* [-1, 1], low to -1 and high to 1.
C17_RoundTrip ==
    LET low == self.action_space.low
        high == self.action_space.high
    IN  /\ scale_action(low) = R(-1)
        /\ scale_action(high) = R(1)
        /\ pc \in {"unscale", "transformed"} =>
              /\ RLeq(R(-1), loc.scaled_action[1])
              /\ RLeq(loc.scaled_action[1], R(1))
        /\ pc = "transformed" => trace.env_action = trace.raw_action
        /\ \A y \in {Rat(n, 2) : n \in -2 .. 2} :
              /\ RLeq(low, unscale_action(y)) /\ RLeq(unscale_action(y), high)
              /\ scale_action(unscale_action(y)) = y

\* a space that is not symmetric: the middle of [-2, 1] goes to 0 and back
C17_Witness ==
    /\ pc = "transformed"
    /\ self.action_space = [low |-> R(-2), high |-> R(1)]
    /\ trace.raw_action = Some(Rat(-1, 2))
    /\ loc.scaled_action = Some(R(0))
    /\ trace.env_action = Some(Rat(-1, 2))

\* C18 as stated: num_timesteps never decreases over any sequence of
\* _setup_learn and collect_rollouts.
C18_NeverDecreases == [][num_timesteps' >= num_timesteps]_vars

\* C18, amended: num_timesteps never decreases during collect_rollouts and
\* _setup_learn(reset_num_timesteps=False) leaves it as it is;
\* _setup_learn(reset_num_timesteps=True) sets it to 0.
C18_ResetOnlyInSetup ==
    [][IF pc' = "idle"
       THEN num_timesteps' = (IF trace'.setup = Some(TRUE) THEN 0 ELSE num_timesteps)
       ELSE num_timesteps' >= num_timesteps]_vars

\* a session set up without reset on a model that has already taken steps
C18_Witness ==
    pc = "idle" /\ trace.setup = Some(FALSE) /\ num_timesteps > 0

\* C19: a callback stops the rollout only by returning False. After a
\* return of None or True the rollout goes on to its step with
\* continue_training unchanged; a call that was not stopped returns
\* continue_training = True, and one that returns False was stopped.
C19_OnlyFalseStops ==
    /\ trace.last_callback \in {Some("None"), Some("True")} =>
          pc = "act" /\ loc.continue_training /\ result = None
    /\ Finished => result[1].continue_training
    /\ (pc = "returned" /\ ~result[1].continue_training) =>
          trace.last_callback = Some("False")

\* the second callback of a call returned None and the rollout goes on
C19_Witness ==
    pc = "act" /\ trace.last_callback = Some("None") /\ trace.callbacks = 2

\* C20: a call that was not stopped returns as first element the mean,
\* over the episodes completed during the call, of the sum of the rewards
\* of all steps of the episode since its reset (0.0 when none completed),
\* and as fourth element the observation the last environment step returned.
C20_MeanEpisodeReward ==
    Finished =>
        /\ result[1].mean_reward =
              IF trace.episode_returns = <<>> THEN R(0)
              ELSE Rat(Sum(trace.episode_returns), Len(trace.episode_returns))
        /\ trace.env_steps > 0 => result[1].obs = Some(VisibleObs(wrapper.obs))

\* C21: with SDE and sde_sample_freq = f > 0 the noise is resampled before
\* the action query of exactly the steps at which the running step count of
\* the rollout is a multiple of f, and before no other step.
C21_ResampleEveryF ==
    pc = "store" =>
        (trace.resampled <=>
            (self.use_sde /\ self.sde_sample_freq > 0
             /\ loc.total_steps % self.sde_sample_freq = 0))

\* a call has passed its preconditions
Started == trace.prologue # <<>>

\* C22: with SDE the noise is reset exactly once at the start of a call,
\* before on_rollout_start and so before the first action query; with
\* sde_sample_freq <= 0 that is the only reset of the call; without SDE
\* collect_rollouts never resets the noise.
C22_ResetAtStart ==
    /\ (Started /\ self.use_sde) =>
          /\ trace.prologue = <<"reset_noise", "on_rollout_start">>
          /\ trace.reset_noise >= 1
          /\ trace.env_steps = 0 => trace.reset_noise = 1
          /\ self.sde_sample_freq <= 0 => trace.reset_noise = 1
    /\ (Started /\ ~self.use_sde) => trace.prologue = <<"on_rollout_start">>
    /\ ~self.use_sde => trace.reset_noise = 0

\* a finished two-step rollout with SDE and the default frequency
C22_Witness ==
    /\ Finished /\ self.use_sde /\ self.sde_sample_freq = -1
    /\ trace.env_steps = 2 /\ trace.reset_noise = 1

\* the returns and the advantage of the snapshot are computed
Computed(rd) ==
    /\ Len(rd.returns) = Len(rd.rewards)
    /\ Len(rd.advantage) = Len(rd.rewards)
    /\ Len(rd.rewards) > 0

\* C23 as stated: at the end of a rollout that was not stopped,
\* on_rollout_end is invoked before the returns and the advantage are
\* computed, and both before the five-tuple is returned: whenever the
\* estimates of the running call exist, on_rollout_end has been invoked.
C23_RolloutEndFirst ==
    (pc \in {"post", "end", "returned"} /\ rollout_data # None
     /\ Computed(rollout_data[1])) => trace.rollout_end = 1

\* C23, amended: at the end of a rollout that was not stopped, the returns
\* and the advantage are computed first, then on_rollout_end is invoked,
\* and both have happened when the five-tuple is returned.
C23_EstimateFirst ==
    /\ pc \in {"outer", "callback", "act", "store", "advance", "episode_end", "post"} =>
          /\ trace.rollout_end = 0
          /\ rollout_data # None => rollout_data[1].returns = <<>>
    /\ pc = "end" =>
          /\ trace.rollout_end = 0
          /\ (rollout_data # None /\ trace.env_steps > 0) => Computed(rollout_data[1])
    /\ Finished =>
          /\ trace.rollout_end = 1
          /\ (rollout_data # None /\ trace.env_steps > 0) => Computed(rollout_data[1])

\* the estimates of a two-step snapshot exist, on_rollout_end is still to come
C23_Witness ==
    /\ pc = "end" /\ rollout_data # None
    /\ Len(rollout_data[1].returns) = 2 /\ Len(rollout_data[1].advantage) = 2
    /\ trace.rollout_end = 0

\* the last step of the call returned done and its episode end is still
\* to be processed
EpisodePending == pc \in {"store", "advance", "episode_end"} /\ loc.done

\* C24: every environment step that returns done = true, also one that
\* exhausts the step budget, is followed by exactly one increment of
\* total_episodes and, with an external action noise, by exactly one reset
\* of it before the noise is sampled again; a step with done = false is
\* followed by neither. Outside the processing of a step, the episodes
\* counted and the noise resets are the terminal steps of the call.
C24_EpisodeBoundary ==
    (Started /\ ~EpisodePending) =>
        /\ loc.total_episodes = trace.done_steps
        /\ trace.noise_resets = (IF args.action_noise THEN trace.done_steps ELSE 0)

\* C25: on every step with SDE or with an external action noise, warm-up
\* steps included, the normalized action handed to unscale_action lies in
\* [-1, 1] and the action passed to env.step lies in [low, high], whatever
\* the policy output and the noise are.
C25_ActionInBounds ==
    (pc = "store" /\ (self.use_sde \/ args.action_noise)) =>
        /\ RLeq(R(-1), loc.clipped_action[1])
        /\ RLeq(loc.clipped_action[1], R(1))
        /\ trace.env_action = Some(unscale_action(loc.clipped_action[1]))
        /\ RLeq(self.action_space.low, trace.env_action[1])
        /\ RLeq(trace.env_action[1], self.action_space.high)

\* a policy output beyond high, pushed further by the noise: the
\* environment receives high
C25_Witness ==
    /\ pc = "store" /\ self.use_sde /\ args.action_noise
    /\ RLess(self.action_space.high, trace.raw_action[1])
    /\ trace.noise = Some(R(1))
    /\ trace.env_action = Some(self.action_space.high)

\* the sequences of the snapshot that the rollout fills
Collected(rd) ==
    {Len(rd.observations), Len(rd.actions), Len(rd.rewards), Len(rd.dones),
     Len(rd.values)}

\* C26: a call drops the old snapshot and makes a new, empty one only with
\* SDE and on-policy exploration, otherwise there is none; during the call
\* the snapshot holds one entry per step of this call, and at the return
\* of a call that was not stopped observations, actions, rewards, dones,
\* values, returns and advantage all have length total_steps, in step order.
C26_SnapshotLifetime ==
    Started =>
        /\ rollout_data # None <=> (self.use_sde /\ self.on_policy_exploration)
        /\ rollout_data # None =>
              LET rd == rollout_data[1]
              IN  /\ Collected(rd) =
                        {IF pc = "store" THEN trace.env_steps - 1 ELSE trace.env_steps}
                  /\ Finished =>
                        /\ Collected(rd) = {result[1].total_steps}
                        /\ Len(rd.returns) = result[1].total_steps
                        /\ Len(rd.advantage) = result[1].total_steps
                  /\ pc = "advance" =>
                        /\ rd.observations[Len(rd.observations)] = loc.obs[1]
                        /\ rd.rewards[Len(rd.rewards)] = loc.reward[1]
                        /\ rd.dones[Len(rd.dones)] = loc.done

\* the second call of a session returns a snapshot of its own two steps
C26_Witness ==
    /\ Finished /\ rollout_data # None
    /\ trace.timesteps_at_call > 0
    /\ result[1].total_steps = 2
    /\ Len(rollout_data[1].returns) = 2

\* C27: the episode-info window receives an entry on exactly the steps
\* whose info holds an episode summary, whatever the done flag; the success
\* window receives an entry on exactly the steps whose info holds a success
\* flag and whose done flag is true. A success flag on a non-terminal step
\* is not recorded.
C27_TrackerRecord ==
    trace.info # None =>
        LET info == trace.info[1]
        IN  /\ ep_info_buffer =
                  IF info.episode # None
                  THEN Append(trace.ep_info_before, info.episode[1])
                  ELSE trace.ep_info_before
            /\ ep_success_buffer =
                  IF info.is_success # None /\ trace.done
                  THEN Append(trace.ep_success_before, info.is_success[1])
                  ELSE trace.ep_success_before

\* a non-terminal step with a summary and a success flag: the summary is
\* recorded, the flag is not
C27_Witness ==
    /\ trace.info = Some([episode |-> Some("episode"), is_success |-> Some(TRUE)])
    /\ ~trace.done
    /\ Len(ep_info_buffer) = Len(trace.ep_info_before) + 1
    /\ ep_success_buffer = trace.ep_success_before
    /\ ep_success_buffer = <<FALSE>>

\* C29: for every call that ends normally or by a callback stop,
\* num_timesteps has grown by the returned total_steps, env.step was called
\* total_steps times and, with a replay buffer, replay_buffer.add was
\* called total_steps times; during a call every env.step is followed by
\* its add before the next env.step.
C29_Accounting ==
    /\ pc = "returned" =>
          /\ num_timesteps = trace.timesteps_at_call + result[1].total_steps
          /\ trace.env_steps = result[1].total_steps
          /\ trace.adds = (IF args.replay_buffer THEN result[1].total_steps ELSE 0)
    /\ (Started /\ args.replay_buffer) =>
          trace.adds = (IF pc = "store" THEN trace.env_steps - 1 ELSE trace.env_steps)
    /\ (Started /\ ~args.replay_buffer) => trace.adds = 0

\* the second call of a session ran to its end after two steps and two adds
C29_Witness ==
    /\ Finished /\ trace.timesteps_at_call = 1 /\ num_timesteps = 3
    /\ result[1].total_steps = 2 /\ trace.adds = 2

\* C30: in every call that passes its preconditions on_rollout_start is
\* invoked once, before the first per-step callback; the per-step callback
\* is invoked once before each env.step; on_rollout_end is invoked once,
\* after the last env.step, if and only if the call was not stopped by the
\* callback, and a stopped call computes no returns or advantage.
C30_CallbackLifecycle ==
    Started =>
        /\ Len(SelectSeq(trace.prologue, LAMBDA c : c = "on_rollout_start")) = 1
        /\ trace.callbacks =
              (IF pc \in {"act", "returned"} /\ trace.last_callback # None
               THEN trace.env_steps + 1 ELSE trace.env_steps)
        /\ trace.rollout_end <= 1
        /\ trace.rollout_end = 1 => Finished
        /\ (pc \in {"returned", "raised"} /\ ~Stopped) => trace.rollout_end = 1
        /\ Stopped =>
              /\ trace.rollout_end = 0
              /\ rollout_data # None => /\ rollout_data[1].returns = <<>>
                                         /\ rollout_data[1].advantage = <<>>

\* C31: a call on an environment whose episodes all end eventually returns,
\* for every pair of budgets; a call with a positive step budget and the
\* episode budget disabled eventually returns, after exactly n_steps steps
\* unless the callback stopped it, even when the environment never signals
\* done; a call with an episode budget on an environment that never signals
\* done returns only if the callback stops it.
C31_Termination ==
    /\ (pc = "outer" /\ args.env.episodic) ~> (pc = "returned")
    /\ (pc = "outer" /\ args.n_steps > 0 /\ args.n_episodes = -1) ~>
          (Stopped \/ (Finished /\ result[1].total_steps = args.n_steps))
    /\ []((pc = "returned" /\ ~args.env.episodic /\ args.n_episodes > 0) => Stopped)

\* a call on an environment that never signals done ran to its end after
\* exactly the step budget, no callback having returned False
C31_Witness ==
    /\ Finished /\ ~args.env.episodic
    /\ args.n_steps = MaxSteps /\ args.n_episodes = -1
    /\ result[1].total_steps = MaxSteps /\ result[1].total_episodes = 0
    /\ trace.done_steps = 0
====
